---- MODULE Spec2Model ----
(***************************************************************************)
(* bookmarks.py: table-of-contents lines of a DOCX are parsed into         *)
(* entries, threaded into a bookmark forest, written as JSON and embedded  *)
(* into a PDF as a flat outline.                                           *)
(*                                                                         *)
(* Python objects are modelled as a heap: `nodes` holds one record per     *)
(* node dict created by build_bookmark_tree, and a reference to a node is  *)
(* its index in `nodes`.  A str is a sequence of one-character strings.    *)
(***************************************************************************)
EXTENDS Integers, Sequences, FiniteSets, TLC

VARIABLES
    pc,          \* position of the running call
    paras,       \* document.paragraphs: the text of each paragraph
    pi,          \* how many paragraphs extract_toc_entries has iterated
    text,        \* the argument of parse_toc_line
    result,      \* what parse_toc_line returned
    entries,     \* the list `entries` (in Spec: the part of it iterated so far)
    nodes,       \* heap of node dicts, in creation order
    root,        \* build_bookmark_tree's `root`: references to nodes
    last_nodes,  \* build_bookmark_tree's `last_nodes`: level -> reference
    totalPages,  \* len(doc) of the opened PDF
    toc,         \* embed_bookmarks_to_pdf's `toc`
    visited,     \* history: visited[k] is the node whose record is toc[k]
    argFile,     \* main: args.file is given
    quiet,       \* main: args.quiet
    fileExists,  \* os.path.isfile(docx_path)
    isDocx,      \* docx_path.lower().endswith(".docx")
    pymupdf,     \* PYMUPDF_AVAILABLE
    sidecar,     \* the file <input-stem>_bookmarks.json
    pdfOut,      \* the file <pdf-stem>_with_bookmarks.pdf has been saved
    calls,       \* history: the functions called so far
    failure,     \* history: the collaborator operation that failed, if any
    success,     \* what process_docx returned
    embedResult, \* what embed_bookmarks_to_pdf returned
    raised,      \* the exception propagating out of process_docx or main
    exitCode     \* the exit status of the process

dataVars == <<paras, pi, text, result, entries, nodes, root, last_nodes,
              totalPages, toc, visited>>
procVars == <<argFile, quiet, fileExists, isDocx, pymupdf, sidecar, pdfOut,
              calls, failure, success, embedResult, raised, exitCode>>
vars == <<pc, dataVars, procVars>>

-----------------------------------------------------------------------------
(* Bounds of the model *)

MaxEntries == 4
MaxPages == 2
MaxLineLen == 7

(* Inputs *)

\* Levels as parse_toc_line yields them (1 and more), up to one beyond the
\* clamp of build_bookmark_tree; a title comes with a page below 1 or with
\* a page that may lie beyond the end of the PDF.
Levels == {1, 2, 3, 8, 10}
EntryPool ==
    {[title |-> tp[1], level |-> l, page |-> tp[2]] :
        l \in Levels, tp \in {<<"a", 0>>, <<"b", 2>>}}

\* The characters lines are made of: a digit, the dot, a blank, a letter.
Digits == {"1"}
Spaces == {" "}
Chars == Digits \cup Spaces \cup {".", "a"}
Lines == UNION {[1..n -> Chars] : n \in 0..MaxLineLen}

\* Python's None where a node reference is expected (references start at 1).
NoNode == 0

-----------------------------------------------------------------------------
(* parse_toc_line *)

SetMax(S) == CHOOSE x \in S : \A y \in S : y <= x
SetMin(S) == CHOOSE x \in S : \A y \in S : x <= y

AllIn(s, lo, hi, S) == \A i \in lo..hi : s[i] \in S

\* str.strip()
Strip(s) ==
    LET keep == {i \in DOMAIN s : s[i] \notin Spaces}
    IN  IF keep = {} THEN <<>> ELSE SubSeq(s, SetMin(keep), SetMax(keep))

\* \d+(?:\.\d+)* matches the whole of s[1..a]
IsSectionNumber(s, a) ==
    /\ a >= 1
    /\ a <= Len(s)
    /\ AllIn(s, 1, a, Digits \cup {"."})
    /\ s[1] \in Digits
    /\ s[a] \in Digits
    /\ \A i \in 1..(a - 1) : ~(s[i] = "." /\ s[i + 1] = ".")

\* TOC_LINE_PATTERN.match(s), by the regex engine's order of attempts.  A
\* match is s = s[1..a] (group 1), an optional dot (d), blanks up to b,
\* s[b+1..c] (group 2), blanks up to e, s[e+1..] (group 3) up to the end.
\* Each set holds the places where a piece may end with the rest of the
\* pattern still matching; a greedy piece takes the longest, the lazy
\* group 2 the shortest.
PageStarts(s, c) ==
    {e \in (c + 1)..(Len(s) - 1) :
        AllIn(s, c + 1, e, Spaces) /\ AllIn(s, e + 1, Len(s), Digits)}
TitleEnds(s, b) == {c \in (b + 1)..Len(s) : PageStarts(s, c) # {}}
TitleStarts(s, p) ==
    {b \in (p + 1)..Len(s) : AllIn(s, p + 1, b, Spaces) /\ TitleEnds(s, b) # {}}
TrailingDot(s, a) ==
    {d \in {0, 1} : /\ d = 1 => (a + 1 <= Len(s) /\ s[a + 1] = ".")
                    /\ TitleStarts(s, a + d) # {}}
NumberEnds(s) ==
    {a \in 1..Len(s) : IsSectionNumber(s, a) /\ TrailingDot(s, a) # {}}

TOC_LINE_PATTERN(s) ==
    IF NumberEnds(s) = {} THEN [matched |-> FALSE]
    ELSE LET a == SetMax(NumberEnds(s))
             d == SetMax(TrailingDot(s, a))
             b == SetMax(TitleStarts(s, a + d))
             c == SetMin(TitleEnds(s, b))
             e == SetMax(PageStarts(s, c))
         IN  [matched |-> TRUE,
              group1  |-> SubSeq(s, 1, a),
              group2  |-> SubSeq(s, b + 1, c),
              group3  |-> SubSeq(s, e + 1, Len(s))]

\* re.sub(r'\.{2,}', '', s)
RECURSIVE DropDots(_)
DropDots(s) == IF s # <<>> /\ Head(s) = "." THEN DropDots(Tail(s)) ELSE s

RECURSIVE RemoveLeaders(_)
RemoveLeaders(s) ==
    IF s = <<>> THEN <<>>
    ELSE IF Len(s) >= 2 /\ s[1] = "." /\ s[2] = "."
            THEN RemoveLeaders(DropDots(s))
            ELSE <<Head(s)>> \o RemoveLeaders(Tail(s))

DigitValue(c) == IF c = "1" THEN 1 ELSE 0

\* int(m.group(3))
RECURSIVE IntOf(_)
IntOf(s) ==
    IF s = <<>> THEN 0
    ELSE IntOf(SubSeq(s, 1, Len(s) - 1)) * 10 + DigitValue(s[Len(s)])

\* A plausible slip: the number of dots is taken for the level.
LevelOf_noPlusOne(section_number) ==
    Cardinality({i \in DOMAIN section_number : section_number[i] = "."})

\* level = section_number.count(".") + 1
LevelOf(section_number) ==
    Cardinality({i \in DOMAIN section_number : section_number[i] = "."}) + 1

parse_toc_line(t) ==
    LET m == TOC_LINE_PATTERN(Strip(t))
    IN  IF ~m.matched THEN [matched |-> FALSE]
        ELSE LET section_number == m.group1
                 title_text     == Strip(RemoveLeaders(Strip(m.group2)))
             IN  [matched |-> TRUE,
                  title   |-> section_number \o <<" ">> \o title_text,
                  level   |-> LevelOf(section_number),
                  page    |-> IntOf(m.group3)]

\* A direct call of parse_toc_line.
ParseCall ==
    /\ pc = "parse_call"
    /\ result' = parse_toc_line(text)
    /\ pc' = "parse_returned"
    /\ UNCHANGED <<paras, pi, text, entries, nodes, root, last_nodes, totalPages,
                   toc, visited, procVars>>

-----------------------------------------------------------------------------
(* extract_toc_entries *)

\* One pass of `for para in document.paragraphs`.
ExtractStep ==
    /\ pc = "extract"
    /\ pi < Len(paras)
    /\ pi' = pi + 1
    /\ text' = Strip(paras[pi + 1])
    /\ IF text' = <<>>
          THEN UNCHANGED <<result, entries>>
          ELSE /\ result' = parse_toc_line(text')
               /\ entries' =
                     IF result'.matched
                        THEN Append(entries, [title |-> result'.title,
                                              level |-> result'.level,
                                              page  |-> result'.page])
                        ELSE entries
    /\ UNCHANGED <<pc, paras, nodes, root, last_nodes, totalPages, toc, visited,
                   procVars>>

\* The paragraphs are exhausted: return entries.
ExtractReturn ==
    /\ pc = "extract"
    /\ pi = Len(paras)
    /\ pc' = "extracted"
    /\ UNCHANGED <<dataVars, procVars>>

-----------------------------------------------------------------------------
(* build_bookmark_tree *)

MaxLevel == 9

Max(a, b) == IF a >= b THEN a ELSE b
Min(a, b) == IF a <= b THEN a ELSE b

\* A plausible slip: the upper bound of the clamp is left out.
ClampLevel_noUpper(l) == Max(1, l)

\* level = max(1, min(int(entry["level"]), 9))
ClampLevel(l) == Max(1, Min(l, MaxLevel))

NewNode(entry) ==
    [title    |-> entry.title,
     dest     |-> <<entry.page, "Fit">>,
     color    |-> [k \in {"0", "1", "2"} |-> 0],
     bold     |-> FALSE,
     italic   |-> FALSE,
     children |-> <<>>]

\* last_nodes.get(level - 1)
DictGet(d, k) == IF k \in DOMAIN d THEN d[k] ELSE NoNode

\* d[k] = v
DictSet(d, k, v) == [x \in (DOMAIN d) \cup {k} |-> IF x = k THEN v ELSE d[x]]

\* A plausible slip: a new root goes to the front of the list.
AppendRoot_front(r, ref) == <<ref>> \o r

\* root.append(node)
AppendRoot(r, ref) == Append(r, ref)

\* A plausible slip: the children list is replaced, not extended.
AppendChild_replace(heap, parent, ref) ==
    [heap EXCEPT ![parent].children = <<ref>>]

\* parent["children"].append(node)
AppendChild(heap, parent, ref) ==
    [heap EXCEPT ![parent].children = Append(@, ref)]

\* One pass of the body of `for entry in entries`.
BuildBody(entry) ==
    LET level  == ClampLevel(entry.level)
        ref    == Len(nodes) + 1
        parent == DictGet(last_nodes, level - 1)
    IN  /\ IF level = 1
              THEN /\ root' = AppendRoot(root, ref)
                   /\ nodes' = Append(nodes, NewNode(entry))
              ELSE IF parent # NoNode
                      THEN /\ nodes' = Append(AppendChild(nodes, parent, ref),
                                              NewNode(entry))
                           /\ root' = root
                      ELSE /\ root' = AppendRoot(root, ref)
                           /\ nodes' = Append(nodes, NewNode(entry))
        /\ last_nodes' = DictSet(last_nodes, level, ref)

\* The loop takes the next entry of its argument.
BuildStep ==
    /\ pc = "build"
    /\ Len(entries) < MaxEntries
    /\ \E entry \in EntryPool :
          /\ entries' = Append(entries, entry)
          /\ BuildBody(entry)
    /\ UNCHANGED <<pc, paras, pi, text, result, totalPages, toc, visited,
                   procVars>>

\* The same pass, on the list process_docx passes in.
BuildIter ==
    /\ pc = "build"
    /\ Len(nodes) < Len(entries)
    /\ BuildBody(entries[Len(nodes) + 1])
    /\ UNCHANGED <<pc, paras, pi, text, result, entries, totalPages, toc,
                   visited, procVars>>

\* The argument is exhausted: return root.
BuildReturn ==
    /\ pc = "build"
    /\ Len(nodes) = Len(entries)
    /\ pc' = "built"
    /\ UNCHANGED <<dataVars, procVars>>

-----------------------------------------------------------------------------
(* embed_bookmarks_to_pdf.tree_to_toc *)

\* A plausible slip: depths counted from 0.
TocLevel_zeroBased(parent_level) == parent_level

\* level = parent_level + 1
TocLevel(parent_level) == parent_level + 1

\* A plausible slip: the page is not bounded by the page count.
ClampPage_noUpper(page, doclen) == Max(1, page)

\* page = max(1, min(page, len(doc)))
ClampPage(page, doclen) == Max(1, Min(page, doclen))

\* The records appended to toc_list by one call, each with the node it is
\* made from.
RECURSIVE tree_to_toc(_, _, _)
tree_to_toc(refs, parent_level, doclen) ==
    IF refs = <<>> THEN <<>>
    ELSE LET node  == nodes[Head(refs)]
             level == TocLevel(parent_level)
             page  == IF Len(node.dest) > 0 THEN node.dest[1] ELSE 1
             rec   == <<level, node.title, ClampPage(page, doclen)>>
         IN  <<[ref |-> Head(refs), rec |-> rec]>>
                 \o tree_to_toc(node.children, level, doclen)
                 \o tree_to_toc(Tail(refs), parent_level, doclen)

\* toc = []; tree_to_toc(bookmarks, toc) against an opened PDF of any length.
Project ==
    /\ pc = "built"
    /\ \E T \in 0..MaxPages :
          LET out == tree_to_toc(root, 0, T)
          IN  /\ totalPages' = T
              /\ toc' = [k \in 1..Len(out) |-> out[k].rec]
              /\ visited' = [k \in 1..Len(out) |-> out[k].ref]
    /\ pc' = "projected"
    /\ UNCHANGED <<paras, pi, text, result, entries, nodes, root, last_nodes,
                   procVars>>

-----------------------------------------------------------------------------
(* main, process_docx, ask_embed_bookmarks, embed_bookmarks_to_pdf *)

MaxParas == 2

\* The paragraphs a document may hold: a blank one, prose, a level-1 line,
\* a level-2 line, a line whose title is leader dots only.
ParaTexts ==
    {<<>>,
     <<"a">>,
     <<"1", " ", "a", " ", "1">>,
     <<"1", ".", "1", " ", "a", " ", "1">>,
     <<"1", " ", ".", ".", " ", "1">>}
Documents == UNION {[1..n -> ParaTexts] : n \in 0..MaxParas}

\* main: args.file is given.
MainArgs ==
    /\ pc = "main"
    /\ argFile
    /\ calls' = calls \cup {"process_docx"}
    /\ pc' = "process_docx"
    /\ UNCHANGED <<dataVars, argFile, quiet, fileExists, isDocx, pymupdf, sidecar,
                   pdfOut, failure, success, embedResult, raised, exitCode>>

\* main: get_file_interactively returns a path, which it does only for an
\* existing file.
MainInteractive ==
    /\ pc = "main"
    /\ ~argFile
    /\ fileExists
    /\ calls' = calls \cup {"process_docx"}
    /\ pc' = "process_docx"
    /\ UNCHANGED <<dataVars, argFile, quiet, fileExists, isDocx, pymupdf, sidecar,
                   pdfOut, failure, success, embedResult, raised, exitCode>>

\* main: get_file_interactively returns None on 'q'; main returns.
MainQuit ==
    /\ pc = "main"
    /\ ~argFile
    /\ pc' = "exited"
    /\ exitCode' = 0
    /\ UNCHANGED <<dataVars, argFile, quiet, fileExists, isDocx, pymupdf, sidecar,
                   pdfOut, calls, failure, success, embedResult, raised>>

\* process_docx: the path is no file.
PD_NotFile ==
    /\ pc = "process_docx"
    /\ ~fileExists
    /\ success' = "False"
    /\ pc' = "returned"
    /\ UNCHANGED <<dataVars, argFile, quiet, fileExists, isDocx, pymupdf, sidecar,
                   pdfOut, calls, failure, embedResult, raised, exitCode>>

\* process_docx: the path does not end in .docx.
PD_NotDocx ==
    /\ pc = "process_docx"
    /\ fileExists
    /\ ~isDocx
    /\ success' = "False"
    /\ pc' = "returned"
    /\ UNCHANGED <<dataVars, argFile, quiet, fileExists, isDocx, pymupdf, sidecar,
                   pdfOut, calls, failure, embedResult, raised, exitCode>>

\* process_docx: extract_toc_entries is called and docx.Document opens the
\* file.
PD_Extract ==
    /\ pc = "process_docx"
    /\ fileExists
    /\ isDocx
    /\ calls' = calls \cup {"extract_toc_entries"}
    /\ pc' = "extract"
    /\ UNCHANGED <<dataVars, argFile, quiet, fileExists, isDocx, pymupdf, sidecar,
                   pdfOut, failure, success, embedResult, raised, exitCode>>

\* process_docx: extract_toc_entries raises (the file is no readable DOCX);
\* the exception is caught.
PD_ExtractRaises ==
    /\ pc = "process_docx"
    /\ fileExists
    /\ isDocx
    /\ calls' = calls \cup {"extract_toc_entries"}
    /\ failure' = "docx_read"
    /\ success' = "False"
    /\ pc' = "returned"
    /\ UNCHANGED <<dataVars, argFile, quiet, fileExists, isDocx, pymupdf, sidecar,
                   pdfOut, embedResult, raised, exitCode>>

\* A plausible slip: the check for an empty entry list is left out.
PD_NoEntries_unchecked ==
    /\ pc = "extracted"
    /\ entries = <<>>
    /\ calls' = calls \cup {"build_bookmark_tree"}
    /\ pc' = "build"
    /\ UNCHANGED <<dataVars, argFile, quiet, fileExists, isDocx, pymupdf, sidecar,
                   pdfOut, failure, success, embedResult, raised, exitCode>>

\* process_docx: `if not entries`.
PD_NoEntries ==
    /\ pc = "extracted"
    /\ entries = <<>>
    /\ success' = "False"
    /\ pc' = "returned"
    /\ UNCHANGED <<dataVars, argFile, quiet, fileExists, isDocx, pymupdf, sidecar,
                   pdfOut, calls, failure, embedResult, raised, exitCode>>

\* process_docx: tree = build_bookmark_tree(entries).
PD_Build ==
    /\ pc = "extracted"
    /\ entries # <<>>
    /\ calls' = calls \cup {"build_bookmark_tree"}
    /\ pc' = "build"
    /\ UNCHANGED <<dataVars, argFile, quiet, fileExists, isDocx, pymupdf, sidecar,
                   pdfOut, failure, success, embedResult, raised, exitCode>>

\* process_docx: the sidecar is opened and the tree dumped into it.
PD_WriteJson ==
    /\ pc = "built"
    /\ sidecar' = "written"
    /\ pc' = "json_written"
    /\ UNCHANGED <<dataVars, argFile, quiet, fileExists, isDocx, pymupdf, pdfOut,
                   calls, failure, success, embedResult, raised, exitCode>>

\* process_docx: open(out_path, "w") raises; nothing catches it.
PD_WriteJsonOpenFails ==
    /\ pc = "built"
    /\ failure' = "json_write"
    /\ raised' = "OSError"
    /\ pc' = "raised"
    /\ UNCHANGED <<dataVars, argFile, quiet, fileExists, isDocx, pymupdf, sidecar,
                   pdfOut, calls, success, embedResult, exitCode>>

\* process_docx: json.dump raises after the file was opened for writing;
\* nothing catches it.
PD_WriteJsonDumpFails ==
    /\ pc = "built"
    /\ sidecar' = "partial"
    /\ failure' = "json_write"
    /\ raised' = "OSError"
    /\ pc' = "raised"
    /\ UNCHANGED <<dataVars, argFile, quiet, fileExists, isDocx, pymupdf, pdfOut,
                   calls, success, embedResult, exitCode>>

\* process_docx: show_output is false, so no embedding is offered.
PD_ReturnQuiet ==
    /\ pc = "json_written"
    /\ quiet
    /\ success' = "True"
    /\ pc' = "returned"
    /\ UNCHANGED <<dataVars, argFile, quiet, fileExists, isDocx, pymupdf, sidecar,
                   pdfOut, calls, failure, embedResult, raised, exitCode>>

\* process_docx: ask_embed_bookmarks(docx_path, out_path).
PD_AskEmbed ==
    /\ pc = "json_written"
    /\ ~quiet
    /\ calls' = calls \cup {"ask_embed_bookmarks"}
    /\ pc' = "ask_embed"
    /\ UNCHANGED <<dataVars, argFile, quiet, fileExists, isDocx, pymupdf, sidecar,
                   pdfOut, failure, success, embedResult, raised, exitCode>>

\* ask_embed_bookmarks: PyMuPDF is missing, or the user declines to name a
\* PDF; process_docx returns True.
AE_Skip ==
    /\ pc = "ask_embed"
    /\ success' = "True"
    /\ pc' = "returned"
    /\ UNCHANGED <<dataVars, argFile, quiet, fileExists, isDocx, pymupdf, sidecar,
                   pdfOut, calls, failure, embedResult, raised, exitCode>>

\* ask_embed_bookmarks: the user names something that is no PDF file and is
\* asked again.
AE_Retry ==
    /\ pc = "ask_embed"
    /\ pymupdf
    /\ UNCHANGED <<pc, dataVars, procVars>>

\* ask_embed_bookmarks: a PDF is found beside the DOCX, or the user names
\* one; embed_bookmarks_to_pdf is called.
AE_Embed ==
    /\ pc = "ask_embed"
    /\ pymupdf
    /\ calls' = calls \cup {"embed_bookmarks_to_pdf"}
    /\ pc' = "embed"
    /\ UNCHANGED <<dataVars, argFile, quiet, fileExists, isDocx, pymupdf, sidecar,
                   pdfOut, failure, success, embedResult, raised, exitCode>>

\* embed_bookmarks_to_pdf returns False for the given reason.
EmbedFails(why) ==
    /\ failure' = why
    /\ embedResult' = "False"
    /\ pc' = "embed_returned"
    /\ UNCHANGED <<dataVars, argFile, quiet, fileExists, isDocx, pymupdf, sidecar,
                   pdfOut, calls, success, raised, exitCode>>

\* embed_bookmarks_to_pdf: the PDF or the JSON is no longer a file.
EM_PathMissing ==
    /\ pc = "embed"
    /\ EmbedFails("path_missing")

\* embed_bookmarks_to_pdf: json.load raises; caught.
EM_ReadJsonFails ==
    /\ pc = "embed"
    /\ EmbedFails("json_read")

\* embed_bookmarks_to_pdf: fitz.open raises; caught.
EM_OpenFails ==
    /\ pc = "embed"
    /\ EmbedFails("pdf_open")

\* embed_bookmarks_to_pdf: the JSON is read, the PDF is opened, the old
\* outline is cleared and toc is filled by tree_to_toc.  The sidecar holds
\* the tree just built, so bookmarks is that tree.
EM_TreeToToc ==
    /\ pc = "embed"
    /\ sidecar = "written"
    /\ \E T \in 0..MaxPages :
          LET out == tree_to_toc(root, 0, T)
          IN  /\ totalPages' = T
              /\ toc' = [k \in 1..Len(out) |-> out[k].rec]
              /\ visited' = [k \in 1..Len(out) |-> out[k].ref]
    /\ pc' = "embed_set_toc"
    /\ UNCHANGED <<paras, pi, text, result, entries, nodes, root, last_nodes,
                   procVars>>

\* embed_bookmarks_to_pdf: doc.set_toc(toc) raises; caught.
EM_SetTocFails ==
    /\ pc = "embed_set_toc"
    /\ EmbedFails("set_toc")

\* embed_bookmarks_to_pdf: doc.save raises; caught.
EM_SaveFails ==
    /\ pc = "embed_set_toc"
    /\ EmbedFails("pdf_save")

\* embed_bookmarks_to_pdf: the outline is set and the new PDF saved.
EM_Save ==
    /\ pc = "embed_set_toc"
    /\ pdfOut' = TRUE
    /\ embedResult' = "True"
    /\ pc' = "embed_returned"
    /\ UNCHANGED <<dataVars, argFile, quiet, fileExists, isDocx, pymupdf, sidecar,
                   calls, failure, success, raised, exitCode>>

\* ask_embed_bookmarks drops what embed_bookmarks_to_pdf returned;
\* process_docx returns True.
PD_ReturnAfterEmbed ==
    /\ pc = "embed_returned"
    /\ success' = "True"
    /\ pc' = "returned"
    /\ UNCHANGED <<dataVars, argFile, quiet, fileExists, isDocx, pymupdf, sidecar,
                   pdfOut, calls, failure, embedResult, raised, exitCode>>

\* sys.exit(0 if success else 1)
ExitStatus(ok) == IF ok = "True" THEN 0 ELSE 1

\* main: process_docx has returned; sys.exit.
MainExit ==
    /\ pc = "returned"
    /\ exitCode' = ExitStatus(success)
    /\ pc' = "exited"
    /\ UNCHANGED <<dataVars, argFile, quiet, fileExists, isDocx, pymupdf, sidecar,
                   pdfOut, calls, failure, success, embedResult, raised>>

\* An input() prompt meets the end of stdin (main's pause when stdin is no
\* terminal, a prompt of ask_embed_bookmarks or of get_file_interactively):
\* EOFError, caught nowhere.
PromptEOF ==
    /\ IF pc = "main" THEN ~argFile
                      ELSE IF pc = "ask_embed" THEN pymupdf
                                               ELSE pc = "returned"
    /\ raised' = "EOFError"
    /\ pc' = "raised"
    /\ UNCHANGED <<dataVars, argFile, quiet, fileExists, isDocx, pymupdf, sidecar,
                   pdfOut, calls, failure, success, embedResult, exitCode>>

\* An exception leaves main: the interpreter prints it and exits with 1.
MainUncaught ==
    /\ pc = "raised"
    /\ exitCode' = 1
    /\ pc' = "exited"
    /\ UNCHANGED <<dataVars, argFile, quiet, fileExists, isDocx, pymupdf, sidecar,
                   pdfOut, calls, failure, success, embedResult, raised>>

-----------------------------------------------------------------------------

\* No run of main is under way.
ProcIdle ==
    /\ argFile = FALSE
    /\ quiet = FALSE
    /\ fileExists = FALSE
    /\ isDocx = FALSE
    /\ pymupdf = FALSE
    /\ sidecar = "none"
    /\ pdfOut = FALSE
    /\ calls = {}
    /\ failure = "none"
    /\ success = "none"
    /\ embedResult = "none"
    /\ raised = "none"
    /\ exitCode = -1

Init ==
    /\ ProcIdle
    /\ pc = "build"
    /\ paras = <<>>
    /\ pi = 0
    /\ text = <<>>
    /\ result = [matched |-> FALSE]
    /\ entries = <<>>
    /\ nodes = <<>>
    /\ root = <<>>
    /\ last_nodes = <<>>
    /\ totalPages = 0
    /\ toc = <<>>
    /\ visited = <<>>

Next == BuildStep \/ BuildReturn \/ Project

Spec == Init /\ [][Next]_vars

\* parse_toc_line called on any line, and extract_toc_entries run on a
\* document whose only paragraph is any line.
InitParse ==
    /\ ProcIdle
    /\ \E line \in Lines :
          \/ pc = "parse_call" /\ text = line /\ paras = <<>>
          \/ pc = "extract" /\ text = <<>> /\ paras = <<line>>
    /\ pi = 0
    /\ result = [matched |-> FALSE]
    /\ entries = <<>>
    /\ nodes = <<>>
    /\ root = <<>>
    /\ last_nodes = <<>>
    /\ totalPages = 0
    /\ toc = <<>>
    /\ visited = <<>>

NextParse == ParseCall \/ ExtractStep \/ ExtractReturn

SpecParse == InitParse /\ [][NextParse]_vars

\* A run of main on any path, document and environment.
InitProc ==
    /\ pc = "main"
    /\ argFile \in BOOLEAN
    /\ quiet \in BOOLEAN
    /\ fileExists \in BOOLEAN
    /\ isDocx \in BOOLEAN
    /\ pymupdf \in BOOLEAN
    /\ paras \in (IF fileExists /\ isDocx THEN Documents ELSE {<<>>})
    /\ pi = 0
    /\ text = <<>>
    /\ result = [matched |-> FALSE]
    /\ entries = <<>>
    /\ nodes = <<>>
    /\ root = <<>>
    /\ last_nodes = <<>>
    /\ totalPages = 0
    /\ toc = <<>>
    /\ visited = <<>>
    /\ sidecar = "none"
    /\ pdfOut = FALSE
    /\ calls = {}
    /\ failure = "none"
    /\ success = "none"
    /\ embedResult = "none"
    /\ raised = "none"
    /\ exitCode = -1

NextProc ==
    \/ MainArgs \/ MainInteractive \/ MainQuit
    \/ PD_NotFile \/ PD_NotDocx \/ PD_Extract \/ PD_ExtractRaises
    \/ ExtractStep \/ ExtractReturn
    \/ PD_NoEntries \/ PD_Build
    \/ BuildIter \/ BuildReturn
    \/ PD_WriteJson \/ PD_WriteJsonOpenFails \/ PD_WriteJsonDumpFails
    \/ PD_ReturnQuiet \/ PD_AskEmbed
    \/ AE_Skip \/ AE_Retry \/ AE_Embed
    \/ EM_PathMissing \/ EM_ReadJsonFails \/ EM_OpenFails \/ EM_TreeToToc
    \/ EM_SetTocFails \/ EM_SaveFails \/ EM_Save
    \/ PD_ReturnAfterEmbed
    \/ MainExit \/ PromptEOF \/ MainUncaught

SpecProc == InitProc /\ [][NextProc]_vars

-----------------------------------------------------------------------------
(* Vocabulary of the properties *)

Range(f) == {f[x] : x \in DOMAIN f}

\* The level of an entry clamped into [1, 9], as the specification words it.
ClaimLevel(l) == IF l < 1 THEN 1 ELSE IF l > 9 THEN 9 ELSE l

Refs == 1..Len(nodes)
InRoot(r) == r \in Range(root)
IsChildOf(r, j) == r \in Range(nodes[j].children)
\* Every place a reference to node r is held: <<0, i>> is root[i],
\* <<j, i>> is nodes[j].children[i].
Owners(r) ==
    {<<0, i>> : i \in {i \in DOMAIN root : root[i] = r}}
    \cup UNION {{<<j, i>> : i \in {i \in DOMAIN nodes[j].children :
                                      nodes[j].children[i] = r}} : j \in Refs}
\* Where the record of node r stands in toc.
PosOf(r) == CHOOSE k \in DOMAIN visited : visited[k] = r

-----------------------------------------------------------------------------
(* Properties of build_bookmark_tree and tree_to_toc, under Spec *)

\* C1: each pass of the loop creates the node of the next entry; an entry of
\* clamped level 1 is appended to root; an entry of clamped level L > 1 is
\* appended as the last child of the latest earlier entry of clamped level
\* L - 1, and is appended to root exactly when there is no such entry.
\* Nothing else of the forest changes.
C1_PlacementRule ==
    [][Len(nodes') = Len(nodes) + 1 =>
        LET k == Len(nodes')
            L == ClaimLevel(entries'[k].level)
            E == {j \in 1..(k - 1) : ClaimLevel(entries'[j].level) = L - 1}
        IN  /\ nodes'[k].title = entries'[k].title
            /\ nodes'[k].children = <<>>
            /\ IF L = 1 \/ E = {}
                  THEN /\ root' = Append(root, k)
                       /\ \A j \in 1..(k - 1) :
                             nodes'[j].children = nodes[j].children
                  ELSE /\ root' = root
                       /\ \A j \in 1..(k - 1) :
                             nodes'[j].children =
                                IF j = SetMax(E)
                                   THEN Append(nodes[j].children, k)
                                   ELSE nodes[j].children]_vars

\* C1 witness: a level-1 entry is a root with a level-2 child, a level-8
\* entry without a level-7 predecessor is a root, and a level-10 entry
\* (clamped to 9) is its last child.
C1_Witness ==
    /\ pc = "built"
    /\ \E r \in Refs : /\ entries[r].level = 1
                       /\ InRoot(r)
                       /\ \E c \in Refs : entries[c].level = 2 /\ IsChildOf(c, r)
    /\ \E r \in Refs : /\ entries[r].level = 8
                       /\ InRoot(r)
                       /\ nodes[r].children # <<>>
                       /\ entries[nodes[r].children[Len(nodes[r].children)]].level = 10

\* C2: the outline has one record per node; a root's record has depth 1 and
\* any other node's record has the depth of its parent's record plus one.
C2_ProjectorDepth ==
    pc = "projected" =>
        /\ Len(toc) = Len(nodes)
        /\ Range(visited) = Refs
        /\ \A k \in DOMAIN toc :
              /\ toc[k][1] >= 1
              /\ IF InRoot(visited[k])
                    THEN toc[k][1] = 1
                    ELSE \E j \in Refs :
                            /\ IsChildOf(visited[k], j)
                            /\ toc[k][1] = toc[PosOf(j)][1] + 1

\* C2 witness: an outline in which a record's depth differs from the clamped
\* level of its entry (a root placed by fallback) and another lies at depth 3.
C2_Witness ==
    /\ pc = "projected"
    /\ \E k \in DOMAIN toc : toc[k][1] # ClaimLevel(entries[visited[k]].level)
    /\ \E k \in DOMAIN toc : toc[k][1] = 3

\* C3 as stated: every page written lies in [1, T], for every T >= 0.
C3_PageInRange ==
    pc = "projected" =>
        \A k \in DOMAIN toc : 1 <= toc[k][3] /\ toc[k][3] <= totalPages

\* C3 as amended: every page written is at least 1; it is at most T when
\* T >= 1, and it is 1 when T = 0.
C3_PageClamped ==
    pc = "projected" =>
        \A k \in DOMAIN toc :
            /\ 1 <= toc[k][3]
            /\ totalPages >= 1 => toc[k][3] <= totalPages
            /\ totalPages = 0 => toc[k][3] = 1

\* C3 witness: a PDF with at least one page, one declared page below 1 and
\* one beyond the last page.
C3_Witness ==
    /\ pc = "projected"
    /\ totalPages >= 1
    /\ \E k \in DOMAIN toc : nodes[visited[k]].dest[1] < 1
    /\ \E k \in DOMAIN toc : nodes[visited[k]].dest[1] > totalPages

\* C4: the records of the entries of level 1 stand in the outline in the
\* order of those entries in the source sequence.
C4_ForestOrdering ==
    pc = "projected" =>
        \A r1, r2 \in 1..Len(entries) :
            (/\ r1 < r2
             /\ ClaimLevel(entries[r1].level) = 1
             /\ ClaimLevel(entries[r2].level) = 1)
            => /\ r1 \in Range(visited)
               /\ r2 \in Range(visited)
               /\ PosOf(r1) < PosOf(r2)

\* C4 witness: two level-1 entries with a child of the first between them.
C4_Witness ==
    /\ pc = "projected"
    /\ \E r1, c, r2 \in Refs :
          /\ r1 < c /\ c < r2
          /\ entries[r1].level = 1 /\ entries[r2].level = 1
          /\ IsChildOf(c, r1)
          /\ PosOf(r1) < PosOf(c) /\ PosOf(c) < PosOf(r2)

\* C9: one node per entry; every node is held in exactly one place, a parent
\* is older than its children (so there is no cycle), and the outline has one
\* record per entry, each node visited once.
C9_NodeConservation ==
    /\ \A r \in Refs : Cardinality(Owners(r)) = 1
    /\ \A j, r \in Refs : IsChildOf(r, j) => j < r
    /\ pc \in {"built", "projected"} =>
          /\ Len(nodes) = Len(entries)
          /\ \A r \in Refs : /\ nodes[r].title = entries[r].title
                             /\ nodes[r].dest[1] = entries[r].page
    /\ pc = "projected" =>
          /\ Len(toc) = Len(entries)
          /\ Len(visited) = Len(entries)
          /\ Range(visited) = Refs

\* C9 witness: two adjacent entries that are equal in title, level and page,
\* both kept as children of the same parent.
C9_Witness ==
    /\ pc = "projected"
    /\ \E j, r \in Refs :
          /\ r + 1 \in Refs
          /\ entries[r] = entries[r + 1]
          /\ IsChildOf(r, j) /\ IsChildOf(r + 1, j)

-----------------------------------------------------------------------------
(* Properties of parse_toc_line and extract_toc_entries, under SpecParse *)

\* Every reading of s as "<nums>[.] <title> <page>": nums is dot-separated
\* digit groups, an optional dot follows it, then blanks, a non-empty title,
\* blanks, and a page made of digits that ends the line.
ClaimForms(s) ==
    UNION {UNION {UNION {UNION {
        {[nums |-> SubSeq(s, 1, a), title |-> SubSeq(s, b + 1, c),
          page |-> SubSeq(s, e + 1, Len(s))] :
            e \in {e \in (c + 1)..(Len(s) - 1) :
                     /\ \A i \in (c + 1)..e : s[i] = " "
                     /\ \A i \in (e + 1)..Len(s) : s[i] = "1"}} :
            c \in (b + 1)..Len(s)} :
            b \in {b \in (a + d + 1)..Len(s) :
                     \A i \in (a + d + 1)..b : s[i] = " "}} :
            d \in {d \in {0, 1} : d = 1 => (a + 1 <= Len(s) /\ s[a + 1] = ".")}} :
            a \in {a \in 1..Len(s) :
                     /\ \A i \in 1..a : s[i] \in {"1", "."}
                     /\ s[1] = "1" /\ s[a] = "1"
                     /\ \A i \in 1..(a - 1) : s[i] # "." \/ s[i + 1] # "."}}

\* The text with its blanks at both ends removed.
ClaimTrim(s) ==
    LET ink == {i \in DOMAIN s : s[i] # " "}
        lo  == CHOOSE i \in ink : \A j \in ink : i <= j
        hi  == CHOOSE i \in ink : \A j \in ink : j <= i
    IN  IF ink = {} THEN <<>> ELSE [k \in 1..(hi - lo + 1) |-> s[lo + k - 1]]

\* The title with every run of two or more dots removed, then trimmed: a
\* dot goes exactly when a dot stands next to it.
RECURSIVE ClaimPick(_, _, _)
ClaimPick(s, i, keep) ==
    IF i > Len(s) THEN <<>>
    ELSE (IF i \in keep THEN <<s[i]>> ELSE <<>>) \o ClaimPick(s, i + 1, keep)
ClaimClean(title) ==
    LET inRun(i) == /\ title[i] = "."
                    /\ \/ (i > 1 /\ title[i - 1] = ".")
                       \/ (i < Len(title) /\ title[i + 1] = ".")
    IN  ClaimTrim(ClaimPick(title, 1, {i \in DOMAIN title : ~inRun(i)}))

ClaimDots(nums) == Cardinality({i \in DOMAIN nums : nums[i] = "."})

\* The value of a numeral written with the digit 1 only: 1, 11, 111, ...
RECURSIVE ClaimValue(_)
ClaimValue(page) ==
    IF page = <<>> THEN 0 ELSE 1 + 10 * ClaimValue(Tail(page))

C6_EmptyTitleRejected ==
    (/\ pc \in {"parse_returned", "extracted"}
     /\ \E f \in ClaimForms(ClaimTrim(IF pc = "extracted" THEN paras[1] ELSE text)) :
           ClaimClean(f.title) = <<>>)
    => /\ ~result.matched
       /\ entries = <<>>

-----------------------------------------------------------------------------
(* Properties of process_docx and main, under SpecProc *)

\* extract_toc_entries has returned no entry.
ZeroEntries ==
    /\ "extract_toc_entries" \in calls
    /\ pc \notin {"process_docx", "extract"}
    /\ entries = <<>>
FailureCase == ~fileExists \/ ~isDocx \/ ZeroEntries

\* C7: when the path is no file, or does not end in .docx, or the document
\* yields no entry, process_docx builds no tree, writes no sidecar and calls
\* no embedding, it returns False, and main exits with 1; and the sidecar is
\* written only when at least one entry was found.
C7_FailureOutcomes ==
    /\ FailureCase =>
          /\ "build_bookmark_tree" \notin calls
          /\ nodes = <<>> /\ root = <<>>
          /\ sidecar = "none"
          /\ "ask_embed_bookmarks" \notin calls
          /\ "embed_bookmarks_to_pdf" \notin calls
          /\ ~pdfOut
          /\ raised # "OSError"
    /\ (FailureCase /\ "process_docx" \in calls
            /\ pc \in {"returned", "raised", "exited"}) => success = "False"
    /\ (FailureCase /\ "process_docx" \in calls /\ pc = "exited") => exitCode = 1
    /\ sidecar # "none" => Len(entries) >= 1

\* C7 witness: main has exited with 1 on an existing .docx file that holds
\* prose but no ToC line.
C7_Witness ==
    /\ pc = "exited"
    /\ fileExists /\ isDocx
    /\ failure = "none"
    /\ \E i \in DOMAIN paras : paras[i] = <<"a">>
    /\ ZeroEntries
    /\ success = "False"
    /\ exitCode = 1

\* C8 as stated: a failure to write the sidecar makes process_docx return
\* False, a failure to open the PDF, set its outline or save it makes
\* embed_bookmarks_to_pdf return False, and neither lets the error out.
C8_IOErrorsReturned ==
    /\ failure = "json_write" => (raised # "OSError" /\ success = "False")
    /\ failure \in {"pdf_open", "set_toc", "pdf_save"} =>
          (raised # "OSError" /\ embedResult = "False")

====
